---- MODULE Spec2Model ----
(***************************************************************************)
(* Model of ir/importer.py (class Importer): the batch importers           *)
(* importFeed, importPocket and importEpub, the single-document importers  *)
(* importWebpage and importLocalFile they call, and the collaborators they *)
(* talk to (dialogs, progress bar, notices, the collection, the feed log). *)
(*                                                                         *)
(* Every call the importer makes on a collaborator is appended to `trace`, *)
(* in program order, so that what a handler did, and in which order, can   *)
(* be read off the state.  A handler is cut into three steps: its prologue *)
(* (everything before the loop), one loop iteration, and its epilogue.     *)
(*                                                                         *)
(* The sanitizer (_cleanWebpage and the three tag rewrites) and            *)
(* standardize_math_delimiters are operators on a small document model;    *)
(* a single-document import records in `doc` what it parsed and stored.    *)
(***************************************************************************)
EXTENDS Naturals, Sequences, FiniteSets

\* Number of distinct feed entries / saved articles the sources can list.
MaxEntries == 3
\* Number of distinct hrefs in an e-book, and the longest table of contents.
MaxHrefs == 2
MaxToc == 3

VARIABLES
    feedLog,          \* settings['feedLog']: feed url -> {'downloaded', 'etag', 'modified'}
    pocket,           \* Importer._pocket is set
    settings,         \* the settings the running handler reads
    op,               \* the handler that ran last: "none", "feed", "pocket", "epub"
    phase,            \* "idle", "loop" (inside the for loop), "done" (returned), "raised"
    url,              \* importFeed: the (normalised) feed url
    feed,             \* importFeed: the parsed feed (etag / modified attributes, entries)
    priority,         \* the handler's local `priority`
    entries,          \* the candidates: `entries` / `articles`
    selected,         \* the handler's local `selected`
    i,                \* number of completed loop iterations
    deck,             \* the handler's local `deck`
    importedArticle,  \* importEpub: hrefs already imported in this batch
    trace,            \* collaborator calls of the running handler, in order
    doc,              \* single-document import: the document, sanitized, and its bodies
    math              \* standardize_math_delimiters: its argument and its result

vars == <<feedLog, pocket, settings, op, phase, url, feed, priority, entries,
          selected, i, deck, importedArticle, trace, doc, math>>

----------------------------------------------------------------------------
(* Values *)

\* Python's None, for strings.
None == "None"
\* Python truthiness of an optional string.
Truthy(s) == s # None /\ s # ""

\* A url is its scheme and the rest; NoUrl is the empty string / None.
NoUrl == [scheme |-> "", id |-> 0]
\* No feed parsed (yet): neither attribute, no entries.
NoFeed == [etag |-> "None", modified |-> "None", entries |-> <<>>]
Schemes == <<"http", "", "ftp">>
\* The k-th link a source can list: the three kinds of scheme in turn.
LinkOf(k) == [scheme |-> Schemes[((k - 1) % 3) + 1], id |-> k]
Links == {LinkOf(k) : k \in 1..MaxEntries}

\* settings['priorities'] and the deck a note lands in.
Priorities == <<"", "5", "1">>
DeckName == "Default"

\* A document, as far as the importer can tell documents apart: whether it
\* has a <title> and a <body>, whether a MathJax script is in the raw html,
\* one <a>, one <img> and one <link> with their attributes (None: the
\* attribute is absent), and the text of its content as tokens (see
\* standardize_math_delimiters below).
Anchors == [href : {None, "#frag", "rel", "http://h/p"}, onclick : {None, "f()"}]
Images == [src : {None, "rel", "http://h/p"}, srcset : {None, "broken"}]
StyleLinks == [href : {None, "rel", "http://h/p"}]
BodyTexts == {<<"x">>, <<"$", "x", "$">>}
Docs == [hasTitle : BOOLEAN, hasBody : BOOLEAN, mathjax : BOOLEAN,
         a : Anchors, img : Images, link : StyleLinks, text : BodyTexts]
\* The pages the batch importers meet: with or without <title> and <body>,
\* every attribute present, no MathJax.
Pages == {[hasTitle |-> t, hasBody |-> b, mathjax |-> FALSE,
           a |-> [href |-> "http://h/p", onclick |-> None],
           img |-> [src |-> "rel", srcset |-> None],
           link |-> [href |-> "rel"], text |-> <<"x">>] : t, b \in BOOLEAN}
\* A body string: where it was serialized from, and its text.
NoBody == [kind |-> None, text |-> <<>>]
\* No document (yet).
NoPage == [hasTitle |-> FALSE, hasBody |-> FALSE, mathjax |-> FALSE,
           a |-> [href |-> None, onclick |-> None],
           img |-> [src |-> None, srcset |-> None],
           link |-> [href |-> None], text |-> <<>>]
\* What a single-document import did: the raw document it parsed, the tree
\* after sanitizing, the body _cleanWebpage returned, and the body that
\* was stored in the note.
NoDoc == [html |-> NoPage, page |-> NoPage, body |-> NoBody, stored |-> NoBody]
\* requests.get: a response (any status, the body is returned either way), a
\* ConnectionError, or another RequestException (TooManyRedirects, ...).
FetchKinds == {"response", "ConnectionError", "RequestException"}
Statuses == {200, 404}

\* What the world answers during one single-document import.
\* (typed / accepted: the answer to 'Enter URL:', asked when no url is passed;
\* the batch importers always pass one.)
Envs == [typed : {NoUrl}, accepted : {TRUE},
         fetch : FetchKinds, status : Statuses, page : Pages,
         deckOk : BOOLEAN, choice : 1..Len(Priorities)]

\* One collaborator call: name, the entry it is about, a number, a string.
Ev(name, e, v, s) == [ev |-> name, e |-> e, v |-> v, s |-> s]

\* The outcome of a call: returned value, or an exception left the callee
\* (the trace then ends with the exception).
Ret(val, evs) == [ret |-> val, raised |-> FALSE, evs |-> evs, doc |-> NoDoc]
Raise(evs, e, exc) ==
    [ret |-> None, raised |-> TRUE, evs |-> evs \o <<Ev("raise", e, 0, exc)>>,
     doc |-> NoDoc]
\* The same outcome, of a call that got as far as a document.
WithDoc(r, d) == [r EXCEPT !.doc = d]

\* Subsequences of s (the rows a user can select in _select, in list order).
RECURSIVE SubSeqs(_)
SubSeqs(s) ==
    IF s = <<>> THEN {<<>>}
    ELSE LET rest == SubSeqs(Tail(s))
         IN rest \cup {<<Head(s)>> \o r : r \in rest}

\* The elements of a set of links, in ascending id order.
RECURSIVE LinkSeq(_)
LinkSeq(S) ==
    IF S = {} THEN <<>>
    ELSE LET m == CHOOSE x \in S : \A y \in S : x.id <= y.id
         IN <<m>> \o LinkSeq(S \ {m})

Range(s) == {s[k] : k \in 1..Len(s)}


----------------------------------------------------------------------------
(* standardize_math_delimiters *)

\* A text is a sequence of tokens: a dollar sign, one of the markers the
\* patterns name (each a single token, as no marker contains a dollar sign
\* or overlaps another), or a stretch of anything else ("x").  With
\* re.DOTALL the dot matches every token, newlines included.
Environments == <<"equation", "equation*", "align", "align*">>
Begin(env) ==
    CASE env = "equation" -> "\\begin{equation}"
      [] env = "equation*" -> "\\begin{equation*}"
      [] env = "align" -> "\\begin{align}"
      [] env = "align*" -> "\\begin{align*}"
End(env) ==
    CASE env = "equation" -> "\\end{equation}"
      [] env = "equation*" -> "\\end{equation*}"
      [] env = "align" -> "\\end{align}"
      [] env = "align*" -> "\\end{align*}"

\* One entry of `patterns`: open(.*?)close is replaced by pre \1 post.
Rule(open, close, pre, post) ==
    [open |-> open, close |-> close, pre |-> pre, post |-> post]
\* \begin{env}(.*?)\end{env}  ->  \[\begin{env}\1\end{env}\]
EnvRule(env) ==
    Rule(<<Begin(env)>>, <<End(env)>>, <<"\\[", Begin(env)>>, <<End(env), "\\]">>)
\* Lines 94-105, in the order of the dict: $$...$$, the four environments,
\* then $...$.
patterns ==
    <<Rule(<<"$", "$">>, <<"$", "$">>, <<"\\[">>, <<"\\]">>)>>
    \o [k \in 1..Len(Environments) |-> EnvRule(Environments[k])]
    \o <<Rule(<<"$">>, <<"$">>, <<"\\(">>, <<"\\)">>)>>

\* w occurs in s at position k.
At(s, k, w) == k + Len(w) - 1 <= Len(s) /\ SubSeq(s, k, k + Len(w) - 1) = w
Min(S) == CHOOSE m \in S : \A n \in S : m <= n

\* re.sub(pattern, replacement, s, flags=re.DOTALL) for one rule: the
\* leftmost match, its group as short as possible, is replaced, and the
\* search goes on behind the match.
RECURSIVE Sub(_, _)
Sub(r, s) ==
    LET ends(a) == {b \in (a + Len(r.open))..Len(s) : At(s, b, r.close)}
        starts == {a \in 1..Len(s) : At(s, a, r.open) /\ ends(a) # {}}
    IN IF starts = {} THEN s
       ELSE LET a == Min(starts)
                b == Min(ends(a))
            IN SubSeq(s, 1, a - 1) \o r.pre
               \o SubSeq(s, a + Len(r.open), b - 1) \o r.post
               \o Sub(r, SubSeq(s, b + Len(r.close), Len(s)))

\* Lines 106-108: the rules are applied one after the other.
RECURSIVE ApplyFrom(_, _)
ApplyFrom(k, s) ==
    IF k > Len(patterns) THEN s ELSE ApplyFrom(k + 1, Sub(patterns[k], s))
standardize_math_delimiters(html_content) == ApplyFrom(1, html_content)

----------------------------------------------------------------------------
(* _cleanWebpage *)

\* urljoin(base, ref): a relative reference is resolved against the
\* document's url (http for a fetched page, file for a local one); an
\* absolute one is kept.
urljoin(base, ref) ==
    IF ref = "rel"
    THEN IF base = "file" THEN "file:///d/rel" ELSE "http://h/rel"
    ELSE ref
\* urlsplit(u).scheme
SchemeOf(u) ==
    CASE u \in {"http://h/p", "http://h/rel"} -> "http"
      [] u = "file:///d/rel" -> "file"
      [] OTHER -> ""

\* Lines 446-456: a fragment href is replaced by the no-op target and an
\* onclick that sets the hash, unless the anchor has an onclick already;
\* any other non-empty href is made absolute.
_processATag(base, a) ==
    IF Truthy(a.href)
    THEN IF a.href = "#frag"
         THEN IF ~Truthy(a.onclick)
              THEN [href |-> "javascript:;", onclick |-> "document.location.hash='frag';"]
              ELSE a
         ELSE [a EXCEPT !.href = urljoin(base, @)]
    ELSE a

\* Lines 458-469.  img['src'] raises KeyError when the attribute is absent,
\* and it is evaluated whenever local is true; del img['srcset'] tolerates
\* an absent attribute.
_processImgTag(base, img, local) ==
    LET j == IF Truthy(img.src) THEN [img EXCEPT !.src = urljoin(base, @)] ELSE img
    IN IF local /\ j.src = None
       THEN [raised |-> TRUE, el |-> j]
       ELSE [raised |-> FALSE,
             el |-> [src |-> IF local /\ SchemeOf(j.src) = "file"
                             THEN "media/rel" ELSE j.src,
                     srcset |-> None]]

\* Lines 471-478: the same for link['href'].
_processLinkTag(base, link, local) ==
    LET j == IF Truthy(link.href) THEN [link EXCEPT !.href = urljoin(base, @)] ELSE link
    IN IF local /\ j.href = None
       THEN [raised |-> TRUE, el |-> j]
       ELSE [raised |-> FALSE,
             el |-> [href |-> IF local /\ SchemeOf(j.href) = "file"
                              THEN "media/rel" ELSE j.href]]

\* Lines 65-85: a script whose src names MathJax, or an inline MathJax
\* configuration, is in the raw html.
is_using_mathjax(html) == html.mathjax

\* Lines 110-139: the tree after the rewrites and the body string, or the
\* KeyError of an <img> / <link> rewrite.  (Elements on the blocklist and
\* comments are removed first; no later step reads them, and the document
\* model does not carry them.)
_cleanWebpage(html, base, local) ==
    LET a == _processATag(base, html.a)
        img == _processImgTag(base, html.img, local)
        link == _processLinkTag(base, html.link, local)
        webpage == [html EXCEPT !.a = a, !.img = img.el,
                                !.link = IF img.raised THEN @ ELSE link.el]
        body == IF webpage.hasBody
                THEN [kind |-> "body.children", text |-> webpage.text]
                ELSE [kind |-> "webpage.text", text |-> webpage.text]
    IN IF img.raised \/ link.raised
       THEN [raised |-> TRUE, webpage |-> webpage, body |-> NoBody]
       ELSE [raised |-> FALSE, webpage |-> webpage,
             body |-> IF is_using_mathjax(html)
                      THEN [body EXCEPT !.text = standardize_math_delimiters(@)]
                      ELSE body]

\* What a single-document import has to show for a sanitizer outcome c.
DocOf(html, c, stored) ==
    [html |-> html, page |-> c.webpage, body |-> c.body, stored |-> stored]

----------------------------------------------------------------------------
(* Single-document import *)

\* _getPriority: one chooseList prompt; the label at the chosen row.
_getPriority(e, choice) ==
    [ret |-> Priorities[choice], evs |-> <<Ev("chooseList", e, choice, "")>>]

\* _createNote: the destination deck is missing -> warning, None; else the
\* note is added (the priority field is set only for a truthy priority).
_createNote(e, prio, deckOk) ==
    IF ~deckOk
    THEN Ret(None, <<Ev("showWarning", e, 0, "deck")>>)
    ELSE Ret(DeckName, <<Ev("addNote", e, 0, IF Truthy(prio) THEN prio ELSE None)>>)

\* importWebpage(url, priority, silent, title) under the answers in env.
\* requests.get never raises urllib's HTTPError, so the handler of lines
\* 185-190 is not reachable: a response with an error status is a response.
\* Any exception other than ConnectionError leaves the function; so does the
\* AttributeError of webpage.title.string when the page has no <title>.
importWebpage(u, prio, silent, title, prioEnabled, env) ==
    LET w == IF u = NoUrl THEN env.typed ELSE u
        accepted == IF u = NoUrl THEN env.accepted ELSE TRUE
        dlg == IF u = NoUrl THEN <<Ev("getText", 0, 0, "")>> ELSE <<>>
    IN
    IF w = NoUrl \/ ~accepted
    THEN Ret(None, dlg)
    ELSE IF w.scheme \notin {"", "http", "https"}
    THEN Ret(None, dlg \o <<Ev("showCritical", w.id, 0, "scheme")>>)
    ELSE
      LET get == dlg \o <<Ev("get", w.id,
                             IF env.fetch = "response" THEN env.status ELSE 0, "")>>
      IN CASE env.fetch = "ConnectionError" ->
                Ret(None, get \o <<Ev("showWarning", w.id, 0, "connect")>>)
           [] env.fetch = "RequestException" -> Raise(get, w.id, "RequestException")
           [] OTHER ->
                LET c == _cleanWebpage(env.page, "http", FALSE)
                    ask == prioEnabled /\ ~Truthy(prio)
                IN IF c.raised
                   THEN WithDoc(Raise(get, w.id, "KeyError"),
                                DocOf(env.page, c, NoBody))
                   ELSE IF (ask \/ ~Truthy(title)) /\ ~c.webpage.hasTitle
                   THEN WithDoc(Raise(get, w.id, "AttributeError"),  \* webpage.title is None
                                DocOf(env.page, c, NoBody))
                   ELSE
                     LET p == IF ask THEN _getPriority(w.id, env.choice)
                              ELSE [ret |-> prio, evs |-> <<>>]
                         \* line 204: the sanitizer's body goes into the note
                         note == _createNote(w.id, p.ret, env.deckOk)
                         tip == IF silent THEN <<>>
                                ELSE <<Ev("tooltip", w.id, 0, note.ret)>>
                     IN WithDoc(Ret(note.ret, get \o p.evs \o note.evs \o tip),
                                DocOf(env.page, c,
                                      IF env.deckOk THEN c.body ELSE NoBody))

\* What the disk answers during one local-file import.
\* (picked: the answer to 'Import Local File', asked when no path is passed;
\* importEpub always passes one.  0 is no path.)
LocalEnvs == [picked : {0}, isFile : BOOLEAN, decodes : BOOLEAN, page : Pages,
              deckOk : BOOLEAN, choice : 1..Len(Priorities)]

\* importLocalFile(filepath, priority, silent, front, title) under env.
\* Nothing the local path can raise is caught: a file that does not decode
\* as UTF-8, an <img> / <link> without src / href (KeyError in the
\* sanitizer), a document without <body> (line 236) or without <title>, a
\* title argument left at None (title.strip(), line 246).  Line 236 replaces
\* the sanitizer's body by a new serialization of the tree.
importLocalFile(path, prio, silent, front, title, prioEnabled, env) ==
    LET f == IF path = 0 THEN env.picked ELSE path
        dlg == IF path = 0 THEN <<Ev("getFile", 0, 0, "")>> ELSE <<>>
    IN
    IF f = 0
    THEN Ret(None, dlg)
    ELSE IF ~env.isFile
    THEN Ret(None, dlg \o <<Ev("showCritical", f, 0, "file")>>)
    ELSE
      LET open == dlg \o <<Ev("open", f, 0, "")>>
          ask == prioEnabled /\ ~Truthy(prio)
          c == _cleanWebpage(env.page, "file", TRUE)
          d == DocOf(env.page, c, NoBody)
          p == IF ask THEN _getPriority(f, env.choice)
               ELSE [ret |-> prio, evs |-> <<>>]
      IN IF ~env.decodes                       \* f.read() raises
         THEN Raise(open, f, "UnicodeDecodeError")
         ELSE IF c.raised                      \* img['src'] / link['href']
         THEN WithDoc(Raise(open, f, "KeyError"), d)
         ELSE IF ~c.webpage.hasBody            \* webpage.find('body') is None
         THEN WithDoc(Raise(open, f, "AttributeError"), d)
         ELSE IF (ask \/ ~Truthy(front)) /\ ~c.webpage.hasTitle
         THEN WithDoc(Raise(open, f, "AttributeError"), d)  \* webpage.title is None
         ELSE IF title = None                  \* title.strip()
         THEN WithDoc(Raise(open \o p.evs, f, "AttributeError"), d)
         ELSE
           LET body == [kind |-> "body.children", text |-> c.webpage.text]
               note == _createNote(f, p.ret, env.deckOk)
               tip == IF silent THEN <<>>
                      ELSE <<Ev("tooltip", f, 0, note.ret)>>
           IN WithDoc(Ret(note.ret, open \o p.evs \o note.evs \o tip),
                      DocOf(env.page, c, IF env.deckOk THEN body ELSE NoBody))

\* _select: no dialog for an empty list; else the rows selected when the
\* dialog is accepted, and [] when it is rejected or nothing is selected.
_select(choices) ==
    IF choices = <<>>
    THEN {[ret |-> <<>>, evs |-> <<>>]}
    ELSE {[ret |-> s, evs |-> <<Ev("select", 0, 0, "")>>] :
            s \in SubSeqs(choices)}

\* The batch prompt: self._getPriority() if settings['prioEnabled'] else None.
BatchPriority(prioEnabled, choice) ==
    IF prioEnabled THEN _getPriority(0, choice)
    ELSE [ret |-> None, evs |-> <<>>]

PromptChoices(prioEnabled) == IF prioEnabled THEN 1..Len(Priorities) ELSE {1}

----------------------------------------------------------------------------
(* changeProfile *)

Settings == [prioEnabled : BOOLEAN, pocketArchive : BOOLEAN]
NoSettings == [prioEnabled |-> FALSE, pocketArchive |-> FALSE]

Idle == phase = "idle"

\* Lines 51-52: the profile's settings are loaded (once, before any import;
\* the profile's feed log starts empty).
changeProfile ==
    /\ UNCHANGED <<doc, math>>
    /\ phase = "new"
    /\ \E st \in Settings : settings' = st
    /\ phase' = "idle"
    /\ UNCHANGED <<feedLog, pocket, op, url, feed, priority, entries, selected, i,
                   deck, importedArticle, trace>>

\* A handler has returned, or an exception has left it: control is back in
\* the event loop and the handler's locals are gone.
Return ==
    /\ doc' = NoDoc /\ UNCHANGED math
    /\ phase \in {"done", "raised"}
    /\ phase' = "idle" /\ op' = "none"
    /\ url' = NoUrl /\ feed' = NoFeed /\ priority' = None
    /\ entries' = <<>> /\ selected' = <<>>
    /\ i' = 0 /\ deck' = None /\ importedArticle' = <<>> /\ trace' = <<>>
    /\ UNCHANGED <<feedLog, pocket, settings>>

----------------------------------------------------------------------------
(* importFeed *)

FeedUrlInputs == {NoUrl, [scheme |-> "", id |-> 1], [scheme |-> "http", id |-> 1]}
\* feed.etag / feed.modified: both absent, or both sent by the server.
FeedTokens == {[etag |-> None, modified |-> None], [etag |-> "e1", modified |-> "m1"]}
FeedStatuses == {200, 404}

\* log[url] = {'downloaded': []}
NewLog == [downloaded |-> <<>>, hasTokens |-> FALSE, etag |-> "", modified |-> ""]

\* A handler starts: its locals are fresh.
Fresh(name) ==
    /\ op' = name
    /\ i' = 0 /\ deck' = None /\ importedArticle' = <<>>
    /\ UNCHANGED settings

\* Lines 263-267: the url dialog is cancelled or left empty.
FeedCancel ==
    /\ UNCHANGED <<doc, math>>
    /\ Idle /\ Fresh("feed")
    /\ phase' = "done" /\ trace' = <<Ev("getText", 0, 0, "")>>
    /\ url' = NoUrl /\ feed' = NoFeed /\ priority' = None
    /\ entries' = <<>> /\ selected' = <<>>
    /\ UNCHANGED <<feedLog, pocket>>

\* (a listing that filters nothing out)
NewEntriesAll(feedEntries, downloaded) == feedEntries
\* Lines 296-300: the entries of the feed whose link is not in
\* log[url]['downloaded'], in feed order.
NewEntries(feedEntries, downloaded) ==
    SelectSeq(feedEntries, LAMBDA e : e \notin Range(downloaded))

\* Lines 263-315: everything before the loop.
FeedBegin ==
    /\ UNCHANGED <<doc, math>>
    /\ Idle /\ Fresh("feed")
    /\ \E typed \in FeedUrlInputs \ {NoUrl}, status \in FeedStatuses,
          tokens \in FeedTokens, listed \in SUBSET Links,
          choice \in PromptChoices(settings.prioEnabled) :
        LET u == IF typed.scheme = "" THEN [typed EXCEPT !.scheme = "http"] ELSE typed
            \* log[url]['etag'] raises KeyError: the record is (re)created
            keyError == u \notin DOMAIN feedLog \/ ~feedLog[u].hasTokens
            log == IF keyError
                   THEN [k \in DOMAIN feedLog \cup {u} |->
                           IF k = u THEN NewLog ELSE feedLog[k]]
                   ELSE feedLog
            warn == IF status \notin {200, 301, 302}
                    THEN <<Ev("showWarning", 0, status, "status")>> ELSE <<>>
            p == BatchPriority(settings.prioEnabled, choice)
            new == NewEntries(LinkSeq(listed), log[u].downloaded)
            pre == <<Ev("getText", 0, 0, ""), Ev("parse", 0, 0, "")>> \o warn \o p.evs
        IN /\ url' = u /\ priority' = p.ret
           /\ feed' = [etag |-> tokens.etag, modified |-> tokens.modified,
                       entries |-> LinkSeq(listed)]
           /\ feedLog' = log
           /\ entries' = new
           /\ UNCHANGED pocket
           /\ IF new = <<>>
              THEN /\ phase' = "done" /\ selected' = <<>>
                   /\ trace' = pre \o <<Ev("showInfo", 0, 0, "")>>
              ELSE \E sel \in _select(new) :
                   /\ selected' = sel.ret
                   /\ IF sel.ret = <<>>
                      THEN phase' = "done" /\ trace' = pre \o sel.evs
                      ELSE /\ phase' = "loop"
                           /\ trace' = pre \o sel.evs
                                         \o <<Ev("start", 0, Len(sel.ret), "")>>

\* Lines 317-320: one iteration of the loop.
FeedEntry ==
    /\ UNCHANGED <<doc, math>>
    /\ op = "feed" /\ phase = "loop" /\ i < Len(selected)
    /\ \E env \in Envs :
        LET entry == selected[i + 1]
            r == importWebpage(entry, priority, TRUE, None, settings.prioEnabled, env)
        IN IF r.raised
           THEN /\ phase' = "raised"
                /\ trace' = trace \o r.evs
                /\ UNCHANGED <<feedLog, i, deck>>
           ELSE /\ deck' = r.ret
                /\ feedLog' = [feedLog EXCEPT ![url].downloaded = Append(@, entry)]
                /\ trace' = trace \o r.evs \o <<Ev("append", entry.id, 0, ""),
                                               Ev("update", entry.id, i + 1, "")>>
                /\ i' = i + 1
                /\ UNCHANGED phase
    /\ UNCHANGED <<pocket, settings, op, url, feed, priority, entries, selected, importedArticle>>

\* Lines 322-328: after the loop.
FeedEnd ==
    /\ UNCHANGED <<doc, math>>
    /\ op = "feed" /\ phase = "loop" /\ i = Len(selected)
    /\ feedLog' = [feedLog EXCEPT ![url].hasTokens = TRUE,
                                  ![url].etag = IF feed.etag # None THEN feed.etag ELSE "",
                                  ![url].modified = IF feed.modified # None
                                                    THEN feed.modified ELSE ""]
    /\ trace' = trace \o <<Ev("tokens", 0, 0, ""), Ev("finish", 0, 0, ""),
                           Ev("tooltip", 0, Len(selected), deck)>>
    /\ phase' = "done"
    /\ UNCHANGED <<pocket, settings, op, url, feed, priority, entries, selected, i, deck,
                   importedArticle>>

----------------------------------------------------------------------------
(* importPocket *)

\* Lines 330-349: everything before the loop.
PocketBegin ==
    /\ UNCHANGED <<doc, math>>
    /\ Idle /\ Fresh("pocket")
    /\ pocket' = TRUE
    /\ url' = NoUrl /\ feed' = NoFeed
    /\ UNCHANGED feedLog
    /\ \E listed \in SUBSET Links, choice \in PromptChoices(settings.prioEnabled) :
        LET articles == LinkSeq(listed)
            got == <<Ev("getArticles", 0, 0, "")>>
            p == BatchPriority(settings.prioEnabled, choice)
        IN /\ entries' = articles
           /\ IF articles = <<>>
              THEN /\ phase' = "done" /\ selected' = <<>> /\ priority' = None
                   /\ trace' = got
              ELSE \E sel \in _select(articles) :
                   /\ selected' = sel.ret
                   /\ priority' = p.ret
                   /\ IF sel.ret = <<>>
                      THEN phase' = "done" /\ trace' = got \o sel.evs \o p.evs
                      ELSE /\ phase' = "loop"
                           /\ trace' = got \o sel.evs \o p.evs
                                         \o <<Ev("start", 0, Len(sel.ret), "")>>

\* article['resolved_title']: may be empty.
ResolvedTitles == {"", "T"}

\* Lines 351-355: one iteration of the loop.
PocketEntry ==
    /\ UNCHANGED <<doc, math>>
    /\ op = "pocket" /\ phase = "loop" /\ i < Len(selected)
    /\ \E env \in Envs, title \in ResolvedTitles :
        LET article == selected[i + 1]
            r == importWebpage(article, priority, TRUE, title, settings.prioEnabled, env)
            arch == IF settings.pocketArchive
                    THEN <<Ev("archive", article.id, 0, "")>> ELSE <<>>
        IN IF r.raised
           THEN /\ phase' = "raised"
                /\ trace' = trace \o r.evs
                /\ UNCHANGED <<i, deck>>
           ELSE /\ deck' = r.ret
                /\ trace' = trace \o r.evs \o arch
                                  \o <<Ev("update", article.id, i + 1, "")>>
                /\ i' = i + 1
                /\ UNCHANGED phase
    /\ UNCHANGED <<feedLog, pocket, settings, op, url, feed, priority, entries, selected,
                   importedArticle>>

\* Lines 357-358: after the loop.
PocketEnd ==
    /\ UNCHANGED <<doc, math>>
    /\ op = "pocket" /\ phase = "loop" /\ i = Len(selected)
    /\ trace' = trace \o <<Ev("finish", 0, 0, ""),
                           Ev("tooltip", 0, Len(selected), deck)>>
    /\ phase' = "done"
    /\ UNCHANGED <<feedLog, pocket, settings, op, url, feed, priority, entries, selected, i,
                   deck, importedArticle>>

----------------------------------------------------------------------------
(* importEpub *)

Hrefs == 1..MaxHrefs
\* get_epub_toc: the hrefs of the table of contents, in order, repeats allowed.
Tocs == UNION {[1..k -> Hrefs] : k \in 0..MaxToc}

\* Lines 360-365: the file dialog is cancelled.
EpubCancel ==
    /\ UNCHANGED <<doc, math>>
    /\ Idle /\ Fresh("epub")
    /\ phase' = "done" /\ trace' = <<Ev("getFile", 0, 0, "")>>
    /\ url' = NoUrl /\ feed' = NoFeed /\ priority' = None
    /\ entries' = <<>> /\ selected' = <<>>
    /\ UNCHANGED <<feedLog, pocket>>

\* Lines 360-383: everything before the loop.
EpubBegin ==
    /\ UNCHANGED <<doc, math>>
    /\ Idle /\ Fresh("epub")
    /\ url' = NoUrl /\ feed' = NoFeed
    /\ UNCHANGED <<feedLog, pocket>>
    /\ \E articles \in Tocs, choice \in PromptChoices(settings.prioEnabled) :
        LET got == <<Ev("getFile", 0, 0, ""), Ev("get_epub_toc", 0, 0, "")>>
            p == BatchPriority(settings.prioEnabled, choice)
        IN /\ entries' = articles
           /\ IF articles = <<>>
              THEN /\ phase' = "done" /\ selected' = <<>> /\ priority' = None
                   /\ trace' = got \o <<Ev("showInfo", 0, 0, "")>>
              ELSE \E sel \in _select(articles) :
                   /\ selected' = sel.ret
                   /\ priority' = p.ret
                   /\ IF sel.ret = <<>>
                      THEN phase' = "done" /\ trace' = got \o sel.evs \o p.evs
                      ELSE /\ phase' = "loop"
                           /\ trace' = got \o sel.evs \o p.evs
                                         \o <<Ev("start", 0, Len(sel.ret), "")>>

\* (a dedup test that never finds the href: every occurrence is imported)
AlreadyImportedNever(href, imported) == FALSE
\* Line 399: href in importedArticle.
AlreadyImported(href, imported) == href \in Range(imported)

\* Lines 386-404: one iteration of the loop.  The display title (text --
\* booktitle by author, each "Unknown" when missing) is never empty.
EpubEntry ==
    /\ UNCHANGED <<doc, math>>
    /\ op = "epub" /\ phase = "loop" /\ i < Len(selected)
    /\ \E env \in LocalEnvs :
        LET href == selected[i + 1]
            r == importLocalFile(href, priority, TRUE, "T", "B", settings.prioEnabled, env)
            up == <<Ev("update", href, i + 1, "")>>
        IN IF ~AlreadyImported(href, importedArticle)
           THEN IF r.raised
                THEN /\ phase' = "raised"
                     /\ trace' = trace \o r.evs
                     /\ UNCHANGED <<i, deck, importedArticle>>
                ELSE /\ deck' = r.ret
                     /\ importedArticle' = Append(importedArticle, href)
                     /\ trace' = trace \o r.evs \o up
                     /\ i' = i + 1
                     /\ UNCHANGED phase
           ELSE /\ trace' = trace \o <<Ev("print", href, 0, "skip")>> \o up
                /\ i' = i + 1
                /\ UNCHANGED <<phase, deck, importedArticle>>
    /\ UNCHANGED <<feedLog, pocket, settings, op, url, feed, priority, entries, selected>>

\* Lines 406-407: after the loop.
EpubEnd ==
    /\ UNCHANGED <<doc, math>>
    /\ op = "epub" /\ phase = "loop" /\ i = Len(selected)
    /\ trace' = trace \o <<Ev("finish", 0, 0, ""),
                           Ev("tooltip", 0, Len(importedArticle), deck)>>
    /\ phase' = "done"
    /\ UNCHANGED <<feedLog, pocket, settings, op, url, feed, priority, entries, selected, i,
                   deck, importedArticle>>

----------------------------------------------------------------------------
(* importWebpage and importLocalFile, called for one document *)

\* A single-document import is over: what it did, and its document.
Single(r) ==
    /\ phase' = (IF r.raised THEN "raised" ELSE "done")
    /\ trace' = r.evs /\ doc' = r.doc
    /\ url' = NoUrl /\ feed' = NoFeed /\ priority' = None
    /\ entries' = <<>> /\ selected' = <<>>
    /\ UNCHANGED <<feedLog, pocket, math>>

\* Lines 168-175: importWebpage(); the url dialog is cancelled or left empty.
WebCancel ==
    /\ Idle /\ Fresh("web")
    /\ \E typed \in {NoUrl} \cup Links, accepted \in BOOLEAN :
        /\ typed = NoUrl \/ ~accepted
        /\ Single(importWebpage(NoUrl, None, FALSE, None, settings.prioEnabled,
                                [typed |-> typed, accepted |-> accepted,
                                 fetch |-> "response", status |-> 200,
                                 page |-> NoPage, deckOk |-> TRUE, choice |-> 1]))

\* Lines 168-209: importWebpage() with a url typed into the dialog.
WebImport ==
    /\ Idle /\ Fresh("web")
    /\ \E env \in [typed : Links, accepted : {TRUE},
                   fetch : FetchKinds, status : Statuses, page : Docs,
                   deckOk : BOOLEAN, choice : PromptChoices(settings.prioEnabled)] :
        Single(importWebpage(NoUrl, None, FALSE, None, settings.prioEnabled, env))

\* Lines 211-217: importLocalFile(); the file dialog is cancelled.
LocalCancel ==
    /\ Idle /\ Fresh("local")
    /\ Single(importLocalFile(0, None, FALSE, None, None, settings.prioEnabled,
                              [picked |-> 0, isFile |-> TRUE, decodes |-> TRUE,
                               page |-> NoPage, deckOk |-> TRUE, choice |-> 1]))

\* Front and title arguments of importLocalFile: left out, or given.
Fronts == {None, "T"}
Titles == {None, "B"}

\* Lines 211-252: importLocalFile(front=..., title=...) with a path picked
\* in the dialog.
LocalImport ==
    /\ Idle /\ Fresh("local")
    /\ \E front \in Fronts, title \in Titles,
          env \in [picked : {1}, isFile : BOOLEAN, decodes : BOOLEAN, page : Docs,
                   deckOk : BOOLEAN, choice : PromptChoices(settings.prioEnabled)] :
        Single(importLocalFile(0, None, FALSE, front, title, settings.prioEnabled, env))

----------------------------------------------------------------------------
(* standardize_math_delimiters, applied to one text *)

\* Longest argument, in pieces.
MaxPieces == 4
\* The pieces a text is written with: "$", "$$", the canonical delimiters,
\* the environments' \begin and \end, and other text.
Pieces ==
    {<<"$">>, <<"$", "$">>, <<"x">>, <<"\\[">>, <<"\\]">>, <<"\\(">>, <<"\\)">>}
    \cup {<<Begin(Environments[k])>> : k \in 1..Len(Environments)}
    \cup {<<End(Environments[k])>> : k \in 1..Len(Environments)}
RECURSIVE Flatten(_)
Flatten(ps) == IF ps = <<>> THEN <<>> ELSE Head(ps) \o Flatten(Tail(ps))
\* The texts of at most n pieces.
MathTexts(n) == {Flatten(ps) : ps \in UNION {[1..k -> Pieces] : k \in 0..n}}

\* Nothing has been passed to the function.
NoMath == [text |-> <<>>, out |-> <<>>, done |-> FALSE]

\* Lines 87-108: the function is called on the text.
Standardize ==
    /\ ~math.done
    /\ math' = [math EXCEPT !.out = standardize_math_delimiters(math.text),
                            !.done = TRUE]
    /\ UNCHANGED <<feedLog, pocket, settings, op, phase, url, feed, priority, entries,
                   selected, i, deck, importedArticle, trace, doc>>

----------------------------------------------------------------------------

\* Before the profile is loaded.
Start ==
    /\ feedLog = <<>>
    /\ pocket = FALSE
    /\ settings = NoSettings
    /\ op = "none" /\ phase = "new"
    /\ url = NoUrl /\ feed = NoFeed
    /\ priority = None /\ entries = <<>> /\ selected = <<>> /\ i = 0 /\ deck = None
    /\ importedArticle = <<>>
    /\ trace = <<>>
    /\ doc = NoDoc

Init == Start /\ math = NoMath
\* Any text over the markers is about to be standardized.
InitMath == Start /\ math \in {[NoMath EXCEPT !.text = t] : t \in MathTexts(MaxPieces)}

\* The three batch importers share nothing but the settings: the feed log is
\* read and written by importFeed alone, _pocket by importPocket alone.  Each
\* is checked in a session that runs it any number of times.
NextFeed == changeProfile \/ Return \/ FeedCancel \/ FeedBegin \/ FeedEntry \/ FeedEnd
NextPocket == changeProfile \/ Return \/ PocketBegin \/ PocketEntry \/ PocketEnd
NextEpub == changeProfile \/ Return \/ EpubCancel \/ EpubBegin \/ EpubEntry \/ EpubEnd
NextSingle == changeProfile \/ Return \/ WebCancel \/ WebImport \/ LocalCancel \/ LocalImport
NextMath == Standardize

SpecFeed == Init /\ [][NextFeed]_vars
SpecPocket == Init /\ [][NextPocket]_vars
SpecEpub == Init /\ [][NextEpub]_vars
SpecSingle == Init /\ [][NextSingle]_vars
SpecMath == InitMath /\ [][NextMath]_vars

----------------------------------------------------------------------------
(* Reading the trace *)

Batches == {"feed", "pocket", "epub"}
Idx(name) == {k \in 1..Len(trace) : trace[k].ev = name}
Count(name) == Cardinality(Idx(name))
\* The final summary: the tooltip that is not about one entry.
Summary == {k \in Idx("tooltip") : trace[k].e = 0}
\* The identifier of the k-th selected entry, as the events carry it.
Id(k) == IF op = "epub" THEN selected[k] ELSE selected[k].id
\* A document was created for entry e / a notice was shown about entry e.
Imported(e) == \E k \in Idx("addNote") : trace[k].e = e
Reported(e) ==
    \E k \in 1..Len(trace) :
        trace[k].ev \in {"showWarning", "showCritical"} /\ trace[k].e = e
\* The handler is over, one way or the other.
Over == phase \in {"done", "raised"}
\* The candidates were obtained from the source.
Listed == \E k \in 1..Len(trace) : trace[k].ev \in {"parse", "getArticles", "get_epub_toc"}
\* The position of the progress update with counter value k.
UpdPos(k) == CHOOSE q \in Idx("update") : trace[q].v = k

----------------------------------------------------------------------------
(* Claims *)

\* C1: in a feed batch a link is appended to the feed's downloaded list only
\* if that entry's single-document import succeeded (a note was created for
\* it); the link of an entry whose import failed is not recorded.
C1_SeenOnlyIfImported ==
    op = "feed" =>
        \A k \in Idx("append") :
            \E j \in 1..(k - 1) : trace[j].ev = "addNote" /\ trace[j].e = trace[k].e

\* C2: the count in the final summary equals the number of selected entries
\* whose import created a document.
C2_SummaryCountsSuccesses ==
    op \in Batches => \A k \in Summary : trace[k].v = Count("addNote")

\* C3: failure isolation: no failure of one entry leaves the batch loop (no
\* exception ends the handler, and a finished batch has attempted every
\* selected entry), and every entry that failed (no document created, or the
\* server answered with an HTTP error status) was reported by a notice.
C3_FailureIsolation ==
    op \in Batches =>
        /\ phase # "raised"
        /\ phase = "done" => i = Len(selected)
        /\ \A k \in 1..i : Imported(Id(k)) \/ Reported(Id(k))
        /\ \A k \in Idx("get") : trace[k].v >= 400 => Reported(trace[k].e)

\* C4: once a batch with n selected entries is over, progress was reported
\* exactly once per selected entry, in selection order, with the values
\* 1..n, each after that entry's attempt; start(n) came before the first
\* update and finish() after the last.
C4_ProgressOncePerEntry ==
    (op \in Batches /\ Over /\ selected # <<>>) =>
        /\ Count("update") = Len(selected)
        /\ \A k \in 1..Len(selected) :
              /\ \E q \in Idx("update") : trace[q].v = k /\ trace[q].e = Id(k)
              /\ \A q \in Idx("update"), r \in Idx("update") :
                    (trace[q].v = k /\ trace[r].v = k) => q = r
        /\ \A q \in Idx("update"), r \in Idx("update") :
              trace[q].v < trace[r].v => q < r
        /\ \A q \in Idx("update"), j \in 1..Len(trace) :
              (trace[j].e = trace[q].e /\ trace[j].ev \in {"get", "open", "showCritical"})
                  => j < q
        /\ Count("start") = 1 /\ Count("finish") = 1
        /\ \A a \in Idx("start"), q \in Idx("update"), f \in Idx("finish") :
              trace[a].v = Len(selected) /\ a < q /\ q < f

\* C5: once a feed batch is over, the revalidation tokens were written
\* exactly once, after every selected entry had been attempted (all n
\* progress updates precede the write), whatever entries failed.
C5_TokensOnceAfterLoop ==
    (op = "feed" /\ Over /\ selected # <<>>) =>
        /\ Count("tokens") = 1
        /\ \A t \in Idx("tokens") :
              Cardinality({q \in Idx("update") : q < t}) = Len(selected)
        /\ feedLog[url].hasTokens

\* C6: in an e-book batch the local-file import is invoked at most once per
\* href; a selected entry whose href occurred earlier in the selection is
\* skipped (a diagnostic, then its progress update, nothing else); and the
\* count in the final summary is the number of distinct selected hrefs.
C6_EpubDedup ==
    op = "epub" =>
        /\ \A h \in Hrefs :
              Cardinality({k \in 1..Len(trace) :
                  trace[k].e = h /\ trace[k].ev \in {"open", "showCritical"}}) <= 1
        /\ \A k \in 1..i :
              (\E j \in 1..(k - 1) : selected[j] = selected[k]) =>
                  /\ trace[UpdPos(k) - 1] = Ev("print", selected[k], 0, "skip")
                  /\ trace[UpdPos(k) - 2].ev \in {"update", "start"}
        /\ \A k \in Summary : trace[k].v = Cardinality(Range(selected))

\* C6 witness: a finished e-book batch whose selection repeats an href, with
\* a skipped occurrence and a summary.
C6_Witness ==
    /\ op = "epub" /\ phase = "done" /\ Summary # {}
    /\ Len(selected) > Cardinality(Range(selected))
    /\ Count("print") >= 1 /\ Count("addNote") >= 1

\* C7: in a read-later batch an archive request for an article is issued
\* only when archive-on-import is enabled and only after a document was
\* created for that article.
C7_ArchiveOnlyAfterSuccess ==
    op = "pocket" =>
        \A k \in Idx("archive") :
            /\ settings.pocketArchive
            /\ \E j \in 1..(k - 1) : trace[j].ev = "addNote" /\ trace[j].e = trace[k].e

\* C8: with priority assignment enabled, a batch that entered its loop has
\* prompted for a priority exactly once, outside the loop, whatever label
\* was picked, and every document of the batch carries that one value.
C8_OnePromptPerBatch ==
    (op \in Batches /\ settings.prioEnabled /\ selected # <<>>) =>
        /\ Count("chooseList") = 1
        /\ \A k \in Idx("chooseList") : trace[k].e = 0
        /\ \A k \in Idx("addNote") :
              trace[k].s = (IF Truthy(priority) THEN priority ELSE None)

\* C9: a batch whose candidate list is empty reports "nothing to import" and
\* stops there: no selection dialog, no priority prompt, no fetch, no
\* document, no source-state update.
C9_EmptyCandidatesStop ==
    (op \in Batches /\ phase = "done" /\ Listed /\ entries = <<>>) =>
        /\ Count("showInfo") = 1
        /\ Count("select") = 0 /\ Count("chooseList") = 0
        /\ Count("start") = 0 /\ Count("get") = 0 /\ Count("open") = 0
        /\ Count("addNote") = 0 /\ Count("append") = 0 /\ Count("tokens") = 0
        /\ Count("archive") = 0

\* C10: a batch whose selection comes back empty stops silently: the
\* selection dialog is the last thing it did (no priority prompt, notice,
\* progress start, fetch, document or source-state change after it).
C10_EmptySelectionSilent ==
    (op \in Batches /\ phase = "done" /\ entries # <<>> /\ selected = <<>>) =>
        trace[Len(trace)].ev = "select"

\* C11: the destination shown in a batch's final summary is the destination
\* returned by the last successful per-entry import of the batch (every
\* successful import returns the one import deck), whichever entries failed.
C11_SummaryDeckIsLastSuccess ==
    op \in Batches =>
        \A k \in Summary :
            (\E j \in Idx("addNote") : j < k) => trace[k].s = DeckName

\* C12: when the server answers the page fetch with an HTTP error status,
\* the single-document import ends without an exception, has reported the
\* error by a notice, and has created no document for that url.
C12_HttpErrorReported ==
    op = "web" =>
        \A k \in Idx("get") :
            trace[k].v >= 400 =>
                /\ phase = "done"
                /\ Reported(trace[k].e)
                /\ ~Imported(trace[k].e)

\* The links that were in the feed's downloaded list when the running feed
\* batch listed its candidates: all but the ones the batch appended since.
SeenAtListing ==
    LET d == feedLog[url].downloaded
    IN Range(SubSeq(d, 1, Len(d) - Count("append")))

\* C13: in every feed batch, after any earlier batches on the same feed, no
\* candidate's link was in the feed's downloaded list when the candidates
\* were listed; and when every entry of the feed was in it, the candidate
\* list is empty.
C13_CandidatesAreUnseen ==
    (op = "feed" /\ url # NoUrl) =>
        /\ Range(entries) \cap SeenAtListing = {}
        /\ Range(feed.entries) \subseteq SeenAtListing => entries = <<>>

\* C13 witness: a later batch on a feed has just listed its candidates; the
\* feed repeats a link downloaded before, which is not among them.
C13_Witness ==
    /\ op = "feed" /\ url # NoUrl /\ Count("append") = 0
    /\ Range(feed.entries) \cap SeenAtListing # {}
    /\ entries # <<>>

\* A single-document import got as far as parsing a document.
Parsed == op \in {"web", "local"} /\ Over /\ doc # NoDoc

\* C14: on both paths (remote page: isLocal false; local file: isLocal
\* true) an <img> without src, or a <link> without href, is skipped by the
\* sanitizer: no KeyError, the attribute stays absent, and the rest of the
\* document is sanitized as usual (the other element's relative reference
\* is made absolute, a body is returned).
C14_MissingAttributeSkipped ==
    (Parsed /\ (doc.html.img.src = None \/ doc.html.link.href = None)) =>
        /\ \A k \in Idx("raise") : trace[k].s # "KeyError"
        /\ doc.html.img.src = None => doc.page.img.src = None
        /\ doc.html.link.href = None => doc.page.link.href = None
        /\ doc.html.img.src = "rel" => doc.page.img.src # "rel"
        /\ doc.html.link.href = "rel" => doc.page.link.href # "rel"
        /\ doc.body # NoBody

\* C15: after sanitizing, the anchor's href is not a same-document
\* fragment: an anchor whose href started with '#' has the no-op target
\* "javascript:;" instead, whether or not it came with an onclick.
C15_NoFragmentHref ==
    Parsed =>
        /\ doc.page.a.href # "#frag"
        /\ doc.html.a.href = "#frag" => doc.page.a.href = "javascript:;"

\* C16: standardizing is idempotent: once a text over the markers has been
\* standardized, standardizing the result again changes nothing.
C16_Idempotent ==
    math.done => standardize_math_delimiters(math.out) = math.out

\* Every token of s is other text / no token of s is a dollar sign.
Plain(s) == \A k \in 1..Len(s) : s[k] = "x"
NoDollar(s) == \A k \in 1..Len(s) : s[k] # "$"

\* C17: a text that is a block $$E$$ (E without dollar signs) between
\* stretches of other text is standardized to the same text with \[E\] in
\* the block's place: one display wrapper, E unchanged, which none of the
\* rules applied after the $$ rule has altered.
C17_DisplayBlockKept ==
    math.done =>
        \A a, b \in 1..Len(math.text) :
            LET t == math.text
                E == SubSeq(t, a + 2, b - 1)
                pre == SubSeq(t, 1, a - 1)
                post == SubSeq(t, b + 2, Len(t))
            IN (/\ a + 2 <= b /\ At(t, a, <<"$", "$">>) /\ At(t, b, <<"$", "$">>)
                /\ Plain(pre) /\ Plain(post) /\ NoDollar(E))
               => math.out = pre \o <<"\\[">> \o E \o <<"\\]">> \o post

\* C18: a document without a <body> element is not an error on either path:
\* when nothing else stands in the way (the document has a <title>, its
\* <img> and <link> have their attributes, the import deck exists), the
\* import ends without an exception and has stored a note whose body is
\* the document's plain text.
C18_NoBodyIsNotAnError ==
    (/\ Parsed /\ ~doc.html.hasBody /\ doc.html.hasTitle
     /\ doc.html.img.src # None /\ doc.html.link.href # None
     /\ Count("showWarning") = 0) =>
        /\ phase = "done"
        /\ Count("addNote") = 1
        /\ doc.stored.kind = "webpage.text"
        /\ doc.stored = doc.body

\* C19: on both paths the body stored in the note is exactly the body the
\* sanitizer returned (so the two paths store the same body for the same
\* sanitizer output), and when a MathJax script was found in the raw html
\* it is the text with its math delimiters standardized.
C19_StoredBodyIsSanitizerBody ==
    (Parsed /\ Count("addNote") = 1) =>
        /\ doc.stored = doc.body
        /\ doc.html.mathjax =>
              doc.stored.text = standardize_math_delimiters(doc.html.text)

\* C20: across feed batches, however they end, a feed's downloaded list
\* only grows: in every step each feed that has a log record keeps it, and
\* keeps every link recorded so far, in place (the record is never reset).
C20_SeenLinksOnlyGrow ==
    [][\A u \in DOMAIN feedLog :
          /\ u \in DOMAIN feedLog'
          /\ Len(feedLog[u].downloaded) <= Len(feedLog'[u].downloaded)
          /\ SubSeq(feedLog'[u].downloaded, 1, Len(feedLog[u].downloaded))
                = feedLog[u].downloaded]_vars
====
